---- MODULE Spec2Model ----
(***************************************************************************)
(* Model of src/Prototype3.py: one execution of main(), the Streamlit      *)
(* script that writes six inputs into two workbooks, obtains the landed    *)
(* cost from cell M25 by a persist / reload / check cycle with a fallback, *)
(* and merges both workbooks into one combined workbook.                   *)
(*                                                                         *)
(* Numbers are exact rationals [num, den] (the float rounding of Python is *)
(* not modelled).  What the spreadsheet engine returns for M25 on a        *)
(* computed-mode load, and whether a load / save / open raises, are        *)
(* choices of the environment.                                             *)
(***************************************************************************)
EXTENDS Integers, Sequences, FiniteSets, TLC

VARIABLES
    pc,                     \* position of main()
    keyword_name,           \* st.text_input
    landed_cost_file,       \* uploaded file A (its content), NoDoc if none
    profit_calc_file,       \* uploaded file B (its content), NoDoc if none
    wb_landed_cost,         \* workbook bound to the name wb_landed_cost
    wb_profit_calc,         \* workbook bound to the name wb_profit_calc
    inputs,                 \* the six st.number_input values
    tmp_file,               \* content of the temporary file of line 104-108
    attempt,                \* loop variable of line 118
    calculated_landed_cost, \* local of line 117-129
    combined_workbook,      \* workbook built at line 149-184
    st_success,             \* st.success emitted (line 192)
    st_error,               \* st.error emitted (lines 65, 70, 86, 201)
    was_fallback,           \* fallback warning emitted (line 130-131)
    download_offered,       \* st.download_button reached (line 198)
    written,                \* history: addresses assigned in documents A and B
    persists,               \* history: number of saves of document A
    loads,                  \* history: number of computed-mode loads
    checks,                 \* history: values seen by the test of line 120
    failed_at,              \* history: the step that raised, "none" if none
    button                  \* st.button returned True (line 93)

vars == <<pc, keyword_name, landed_cost_file, profit_calc_file, wb_landed_cost,
          wb_profit_calc, inputs, tmp_file, attempt, calculated_landed_cost,
          combined_workbook, st_success, st_error, was_fallback,
          download_offered, written, persists, loads, checks, failed_at,
          button>>

----------------------------------------------------------------------------
(* Bounds of the model and constants of the program *)

MaxTarget == 2

max_attempts == 3

Max(a, b) == IF a >= b THEN a ELSE b

----------------------------------------------------------------------------
(* Cell values: None, text, formula text, numbers *)

None == [kind |-> "none", num |-> 0, den |-> 1, txt |-> ""]

Str(s) == [kind |-> "str", num |-> 0, den |-> 1, txt |-> s]

Formula(s) == [kind |-> "formula", num |-> 0, den |-> 1, txt |-> s]

Num(n) == [kind |-> "num", num |-> n, den |-> 1, txt |-> ""]

RECURSIVE GCD(_, _)
GCD(a, b) == IF b = 0 THEN a ELSE GCD(b, a % b)

\* a / b of Python for a >= 0 and b > 0, as a fraction in lowest terms
Div(a, b) ==
    LET g == GCD(a, b)
    IN  [kind |-> "num", num |-> a \div g, den |-> b \div g, txt |-> ""]

\* isinstance(v, str): text and formula text are both str for openpyxl
IsStr(v) == v.kind \in {"str", "formula"}

\* line 120: "is not None and not isinstance(..., str)"
IsValid(v) == v.kind # "none" /\ ~IsStr(v)

\* line 129: (shipping_total + unit_cost) / (target_sales_per_month or 1)
FallbackCost_NoDivision(s, u, t) == Num(s + u)

FallbackCost(s, u, t) == Div(s + u, IF t # 0 THEN t ELSE 1)

----------------------------------------------------------------------------
(* Styles, cells, sheets, workbooks *)

Facets == {"font", "border", "fill", "number_format", "protection", "alignment"}

DefaultStyle == [f \in Facets |-> "default"]

BoldStyle == [DefaultStyle EXCEPT !["font"] = "bold", !["alignment"] = "center"]

MoneyStyle == [DefaultStyle EXCEPT !["number_format"] = "0.00", !["fill"] = "yellow",
                                   !["border"] = "thin", !["protection"] = "locked"]

Cell(v, st) == [value |-> v, style |-> st]

\* cell.has_style: the cell carries a style other than the default one
has_style(c) == c.style # DefaultStyle

BlankCell == Cell(None, DefaultStyle)

Addr == {"G17", "G25", "M25", "F33", "F35", "F37", "F39", "F43"}

BlankCells == [a \in Addr |-> BlankCell]

Sheet(t, cs) == [title |-> t, cells |-> cs]

Doc(ss, act) == [sheets |-> ss, active |-> act]

NoDoc == Doc(<< >>, 0)

sheetnames(wb) == [i \in 1..Len(wb.sheets) |-> wb.sheets[i].title]

\* wb.active
ActiveSheet(wb) == wb.sheets[wb.active]

\* sheet[addr] = v : the value is replaced, the style of the cell is kept
SetCell(wb, addr, v) ==
    [wb EXCEPT !.sheets[wb.active].cells[addr].value = v]

\* wb[sheet_name]: the first sheet carrying that title
SheetNamed(wb, name) ==
    wb.sheets[CHOOSE i \in 1..Len(wb.sheets) :
                 /\ wb.sheets[i].title = name
                 /\ \A j \in 1..(i - 1) : wb.sheets[j].title # name]

\* load_workbook(path, data_only=True): a formula cell holds the value the
\* engine cached for it.  r is what the engine yields for M25 of the active
\* sheet; no other formula cell has a cached value.
ComputedCell(wb, i, a, r) ==
    LET c == wb.sheets[i].cells[a]
    IN  IF c.value.kind # "formula" THEN c
        ELSE IF i = wb.active /\ a = "M25" THEN Cell(r, c.style)
        ELSE Cell(None, c.style)

ComputedSnapshot(wb, r) ==
    Doc([i \in 1..Len(wb.sheets) |->
            Sheet(wb.sheets[i].title,
                  [a \in Addr |-> ComputedCell(wb, i, a, r)])],
        wb.active)

----------------------------------------------------------------------------
(* The merge of lines 149-184 *)

\* Titles compare case-insensitively when a sheet is created
LowerTable == [t \in {"Costs"} |-> "costs"]

Lower(t) == IF t \in DOMAIN LowerTable THEN LowerTable[t] ELSE t

\* Workbook.create_sheet(title=...) (lines 157, 174): openpyxl's title setter
\* passes the title through avoid_duplicate_name, which appends the next free
\* number when a sheet of that title (ignoring case) already exists.
avoid_duplicate_name(names, value) ==
    LET taken(v) == \E i \in 1..Len(names) : Lower(names[i]) = Lower(v)
        counts   == {c \in 1..Len(names) : taken(value \o ToString(c))}
        highest  == IF counts = {} THEN 0
                    ELSE CHOOSE c \in counts : \A d \in counts : d <= c
    IN  IF taken(value) THEN value \o ToString(highest + 1) ELSE value

\* lines 160-167 / 177-184: the value, and the six facets of a styled cell
CopyCell_NoAlignment(cell) ==
    Cell(cell.value,
         IF has_style(cell)
         THEN [f \in Facets |-> IF f = "alignment" THEN "default" ELSE cell.style[f]]
         ELSE DefaultStyle)

CopyCell(cell) ==
    Cell(cell.value,
         IF has_style(cell)
         THEN [f \in Facets |-> cell.style[f]]
         ELSE DefaultStyle)

\* lines 153-167 / 170-184: one new sheet per sheet name of wb, in order
RECURSIVE CopySheets(_, _, _)
CopySheets(out, wb, i) ==
    IF i > Len(wb.sheets) THEN out
    ELSE LET sheet_name   == sheetnames(wb)[i]
             source_sheet == SheetNamed(wb, sheet_name)
             target_sheet ==
                 Sheet(avoid_duplicate_name([k \in 1..Len(out) |-> out[k].title],
                                            sheet_name),
                       [a \in Addr |-> CopyCell(source_sheet.cells[a])])
         IN  CopySheets(Append(out, target_sheet), wb, i + 1)

\* lines 170-174 with the order of the two loops exchanged
MergeWorkbooks_BFirst(a, b) == Doc(CopySheets(CopySheets(<< >>, b, 1), a, 1), 1)

\* lines 149-184: Workbook() without its default sheet, then A, then B
MergeWorkbooks(a, b) == Doc(CopySheets(CopySheets(<< >>, a, 1), b, 1), 1)

----------------------------------------------------------------------------
(* The inputs the environment can supply *)

Keywords == {"", "WidgetX"}

LandedCostSheet(t) ==
    Sheet(t, [BlankCells EXCEPT !["G17"] = Cell(Num(1), MoneyStyle),
                                !["G25"] = Cell(Num(1), DefaultStyle),
                                !["M25"] = Cell(Formula("=G17+G25"), BoldStyle)])

NotesSheet(t) ==
    Sheet(t, [BlankCells EXCEPT !["F33"] = Cell(Str("memo"), DefaultStyle),
                                !["G17"] = Cell(None, BoldStyle)])

ProfitSheet(t) ==
    Sheet(t, [BlankCells EXCEPT !["F39"] = Cell(Num(1), MoneyStyle),
                                !["F43"] = Cell(Str("n/a"), BoldStyle),
                                !["M25"] = Cell(Formula("=F35-F39"), DefaultStyle)])

\* uploaded files A (the second has its landed-cost sheet active in 2nd place)
FilesA ==
    { Doc(<<LandedCostSheet("Costs")>>, 1),
      Doc(<<NotesSheet("Notes"), LandedCostSheet("Costs")>>, 2),
      Doc(<< >>, 0) }

\* uploaded files B (the second repeats a title of A, in another case)
FilesB ==
    { Doc(<<ProfitSheet("Calc")>>, 1),
      Doc(<<ProfitSheet("Calc"), NotesSheet("costs")>>, 1),
      Doc(<< >>, 0) }

ShippingValues == {0, 10}

UnitCostValues == {0, 5, 6}

TargetValues == 0..MaxTarget

SellingValues == {0, 30}

FeeValues == {0, 4}

StorageValues == {0, 1}

InputSets ==
    [shipping_total : ShippingValues, unit_cost : UnitCostValues,
     target_sales_per_month : TargetValues, selling_price : SellingValues,
     fulfillment_fee : FeeValues, storage_cost : StorageValues]

\* st.number_input before the user types: min_value
NoInputs ==
    [shipping_total |-> 0, unit_cost |-> 0, target_sales_per_month |-> 0,
     selling_price |-> 0, fulfillment_fee |-> 0, storage_cost |-> 0]

\* what a computed-mode load can show in M25
ReloadResults == {None, Str("#REF!"), Num(15), Num(7)}

\* line 85 with storage_cost left out of the test
AllFilled_NoStorage(in) ==
    /\ in.shipping_total # 0 /\ in.unit_cost # 0
    /\ in.target_sales_per_month # 0 /\ in.selling_price # 0
    /\ in.fulfillment_fee # 0

\* line 85 with target_sales_per_month left out of the test
AllFilled_NoTarget(in) ==
    /\ in.shipping_total # 0 /\ in.unit_cost # 0
    /\ in.selling_price # 0 /\ in.fulfillment_fee # 0
    /\ in.storage_cost # 0

\* line 85: every one of the six numbers is truthy (non-zero)
AllFilled(in) ==
    /\ in.shipping_total # 0 /\ in.unit_cost # 0
    /\ in.target_sales_per_month # 0 /\ in.selling_price # 0
    /\ in.fulfillment_fee # 0 /\ in.storage_cost # 0

----------------------------------------------------------------------------
(* The run of main() *)

Init ==
    /\ pc = "keyword"
    /\ keyword_name = ""
    /\ landed_cost_file = NoDoc
    /\ profit_calc_file = NoDoc
    /\ wb_landed_cost = NoDoc
    /\ wb_profit_calc = NoDoc
    /\ inputs = NoInputs
    /\ tmp_file = NoDoc
    /\ attempt = 0
    /\ calculated_landed_cost = None
    /\ combined_workbook = NoDoc
    /\ st_success = FALSE
    /\ st_error = FALSE
    /\ was_fallback = FALSE
    /\ download_offered = FALSE
    /\ written = {}
    /\ persists = 0
    /\ loads = 0
    /\ checks = << >>
    /\ failed_at = "none"
    /\ button = FALSE

\* lines 42-46: the keyword; an empty one ends the run
EnterKeyword ==
    /\ pc = "keyword"
    /\ \E k \in Keywords :
          /\ keyword_name' = k
          /\ pc' = IF k = "" THEN "returned" ELSE "upload"
    /\ UNCHANGED <<landed_cost_file, profit_calc_file, wb_landed_cost,
                   wb_profit_calc, inputs, tmp_file, attempt,
                   calculated_landed_cost, combined_workbook, st_success,
                   st_error, was_fallback, download_offered, written, persists,
                   loads, checks, failed_at, button>>

\* lines 53-58: both files must be uploaded
UploadFiles ==
    /\ pc = "upload"
    /\ \/ /\ pc' = "returned"
          /\ UNCHANGED <<landed_cost_file, profit_calc_file>>
       \/ /\ \E a \in FilesA, b \in FilesB :
                /\ landed_cost_file' = a
                /\ profit_calc_file' = b
          /\ pc' = "load"
    /\ UNCHANGED <<keyword_name, wb_landed_cost, wb_profit_calc, inputs,
                   tmp_file, attempt, calculated_landed_cost,
                   combined_workbook, st_success, st_error, was_fallback,
                   download_offered, written, persists, loads, checks,
                   failed_at, button>>

\* lines 60-66: formula-mode load of both files; a failure ends the run
LoadWorkbooks ==
    /\ pc = "load"
    /\ \/ /\ wb_landed_cost' = landed_cost_file
          /\ wb_profit_calc' = profit_calc_file
          /\ pc' = "sheets"
          /\ UNCHANGED st_error
       \/ /\ st_error' = TRUE
          /\ pc' = "returned"
          /\ UNCHANGED <<wb_landed_cost, wb_profit_calc>>
    /\ UNCHANGED <<keyword_name, landed_cost_file, profit_calc_file, inputs,
                   tmp_file, attempt, calculated_landed_cost,
                   combined_workbook, st_success, was_fallback,
                   download_offered, written, persists, loads, checks,
                   failed_at, button>>

\* lines 69-72: both workbooks must have a sheet
CheckSheetnames ==
    /\ pc = "sheets"
    /\ IF Len(wb_landed_cost.sheets) = 0 \/ Len(wb_profit_calc.sheets) = 0
       THEN st_error' = TRUE /\ pc' = "returned"
       ELSE pc' = "inputs" /\ UNCHANGED st_error
    /\ UNCHANGED <<keyword_name, landed_cost_file, profit_calc_file,
                   wb_landed_cost, wb_profit_calc, inputs, tmp_file, attempt,
                   calculated_landed_cost, combined_workbook, st_success,
                   was_fallback, download_offered, written, persists, loads,
                   checks, failed_at, button>>

\* lines 78-88: the six numbers; a zero one ends the run
CollectInputs ==
    /\ pc = "inputs"
    /\ \E in \in InputSets :
          /\ inputs' = in
          /\ IF AllFilled(in)
             THEN pc' = "button" /\ UNCHANGED st_error
             ELSE st_error' = TRUE /\ pc' = "returned"
    /\ UNCHANGED <<keyword_name, landed_cost_file, profit_calc_file,
                   wb_landed_cost, wb_profit_calc, tmp_file, attempt,
                   calculated_landed_cost, combined_workbook, st_success,
                   was_fallback, download_offered, written, persists, loads,
                   checks, failed_at, button>>

\* line 93: nothing happens unless the button was pressed
PressButton ==
    /\ pc = "button"
    /\ \E pressed \in BOOLEAN :
          /\ button' = pressed
          /\ pc' = IF pressed THEN "write_a" ELSE "returned"
    /\ UNCHANGED <<keyword_name, landed_cost_file, profit_calc_file,
                   wb_landed_cost, wb_profit_calc, inputs, tmp_file, attempt,
                   calculated_landed_cost, combined_workbook, st_success,
                   st_error, was_fallback, download_offered, written, persists,
                   loads, checks, failed_at>>

\* lines 100-101
WriteLandedCost ==
    /\ pc = "write_a"
    /\ wb_landed_cost' =
          SetCell(SetCell(wb_landed_cost, "G17", Num(inputs.shipping_total)),
                  "G25", Num(inputs.unit_cost))
    /\ written' = written \cup {"G17", "G25"}
    /\ pc' = "persist"
    /\ UNCHANGED <<keyword_name, landed_cost_file, profit_calc_file,
                   wb_profit_calc, inputs, tmp_file, attempt,
                   calculated_landed_cost, combined_workbook, st_success,
                   st_error, was_fallback, download_offered, persists, loads,
                   checks, failed_at, button>>

\* lines 199-201: the handler of every exception raised after line 96
Raise(step) ==
    /\ failed_at' = step
    /\ st_error' = TRUE
    /\ pc' = "failed"

\* lines 104-108: save_excel to the temporary file; it may raise
PersistLandedCost ==
    /\ pc = "persist"
    /\ \/ /\ tmp_file' = wb_landed_cost
          /\ persists' = persists + 1
          /\ pc' = "reload"
          /\ UNCHANGED <<st_error, failed_at>>
       \/ /\ Raise("persist")
          /\ UNCHANGED <<tmp_file, persists>>
    /\ UNCHANGED <<keyword_name, landed_cost_file, profit_calc_file,
                   wb_landed_cost, wb_profit_calc, inputs, attempt,
                   calculated_landed_cost, combined_workbook, st_success,
                   was_fallback, download_offered, written, loads, checks,
                   button>>

\* lines 113-118: the first computed-mode load; it may raise
ReloadLandedCost ==
    /\ pc = "reload"
    /\ \/ /\ \E r \in ReloadResults :
                wb_landed_cost' = ComputedSnapshot(tmp_file, r)
          /\ loads' = loads + 1
          /\ calculated_landed_cost' = None
          /\ attempt' = 0
          /\ pc' = "check"
          /\ UNCHANGED <<st_error, failed_at>>
       \/ /\ Raise("load")
          /\ UNCHANGED <<wb_landed_cost, loads, calculated_landed_cost, attempt>>
    /\ UNCHANGED <<keyword_name, landed_cost_file, profit_calc_file,
                   wb_profit_calc, inputs, tmp_file, combined_workbook,
                   st_success, was_fallback, download_offered, written,
                   persists, checks, button>>

\* lines 119-121: one validity check of M25 of the current snapshot
CheckM25 ==
    /\ pc = "check"
    /\ LET v == ActiveSheet(wb_landed_cost).cells["M25"].value
       IN  /\ calculated_landed_cost' = v
           /\ checks' = Append(checks, v)
           /\ pc' = IF IsValid(v) THEN "resolve" ELSE "retry"
    /\ UNCHANGED <<keyword_name, landed_cost_file, profit_calc_file,
                   wb_landed_cost, wb_profit_calc, inputs, tmp_file, attempt,
                   combined_workbook, st_success, st_error, was_fallback,
                   download_offered, written, persists, loads, failed_at,
                   button>>

\* lines 122-125 with a load failure swallowed and counted as an attempt
RetryReload_SwallowsFailure ==
    /\ pc = "retry"
    /\ \/ /\ \E r \in ReloadResults :
                wb_landed_cost' = ComputedSnapshot(tmp_file, r)
          /\ loads' = loads + 1
          /\ UNCHANGED failed_at
       \/ /\ failed_at' = "load"
          /\ UNCHANGED <<wb_landed_cost, loads>>
    /\ attempt' = attempt + 1
    /\ pc' = IF attempt + 1 < max_attempts THEN "check" ELSE "resolve"
    /\ UNCHANGED <<keyword_name, landed_cost_file, profit_calc_file,
                   wb_profit_calc, inputs, tmp_file, calculated_landed_cost,
                   combined_workbook, st_success, st_error, was_fallback,
                   download_offered, written, persists, checks, button>>

\* lines 122-125 and the loop header of line 118: after a failed check the
\* file is loaded again, whatever the attempt; then the next iteration, if any
RetryReload ==
    /\ pc = "retry"
    /\ \/ /\ \E r \in ReloadResults :
                wb_landed_cost' = ComputedSnapshot(tmp_file, r)
          /\ loads' = loads + 1
          /\ attempt' = attempt + 1
          /\ pc' = IF attempt + 1 < max_attempts THEN "check" ELSE "resolve"
          /\ UNCHANGED <<st_error, failed_at>>
       \/ /\ Raise("load")
          /\ UNCHANGED <<wb_landed_cost, loads, attempt>>
    /\ UNCHANGED <<keyword_name, landed_cost_file, profit_calc_file,
                   wb_profit_calc, inputs, tmp_file, calculated_landed_cost,
                   combined_workbook, st_success, was_fallback,
                   download_offered, written, persists, checks, button>>

\* lines 127-131 with the fallback applied whatever the value
ResolveLandedCost_AlwaysFallback ==
    /\ pc = "resolve"
    /\ calculated_landed_cost' =
          FallbackCost(inputs.shipping_total, inputs.unit_cost,
                       inputs.target_sales_per_month)
    /\ was_fallback' = TRUE
    /\ pc' = "write_b"
    /\ UNCHANGED <<keyword_name, landed_cost_file, profit_calc_file,
                   wb_landed_cost, wb_profit_calc, inputs, tmp_file, attempt,
                   combined_workbook, st_success, st_error, download_offered,
                   written, persists, loads, checks, failed_at, button>>

\* lines 127-131: the fallback when the last value checked is None or text
ResolveLandedCost ==
    /\ pc = "resolve"
    /\ IF ~IsValid(calculated_landed_cost)
       THEN /\ calculated_landed_cost' =
                  FallbackCost(inputs.shipping_total, inputs.unit_cost,
                               inputs.target_sales_per_month)
            /\ was_fallback' = TRUE
       ELSE UNCHANGED <<calculated_landed_cost, was_fallback>>
    /\ pc' = "write_b"
    /\ UNCHANGED <<keyword_name, landed_cost_file, profit_calc_file,
                   wb_landed_cost, wb_profit_calc, inputs, tmp_file, attempt,
                   combined_workbook, st_success, st_error, download_offered,
                   written, persists, loads, checks, failed_at, button>>

\* lines 139-143
WriteProfitCalc ==
    /\ pc = "write_b"
    /\ wb_profit_calc' =
          SetCell(SetCell(SetCell(SetCell(SetCell(wb_profit_calc,
              "F33", Num(inputs.target_sales_per_month)),
              "F35", Num(inputs.selling_price)),
              "F37", Num(inputs.fulfillment_fee)),
              "F43", Num(inputs.storage_cost)),
              "F39", calculated_landed_cost)
    /\ written' = written \cup {"F33", "F35", "F37", "F43", "F39"}
    /\ pc' = "merge"
    /\ UNCHANGED <<keyword_name, landed_cost_file, profit_calc_file,
                   wb_landed_cost, inputs, tmp_file, attempt,
                   calculated_landed_cost, combined_workbook, st_success,
                   st_error, was_fallback, download_offered, persists, loads,
                   checks, failed_at, button>>

\* a cell of wb for which line 161 / 178 is true
HasStyledCell(wb) ==
    \E i \in 1..Len(wb.sheets) : \E a \in Addr : has_style(wb.sheets[i].cells[a])

\* lines 149-184.  Lines 162-167 / 179-184 assign the style objects of the
\* source cell without copying them; openpyxl releases whose style proxies
\* are unhashable raise TypeError there, so with a styled source cell the
\* merge either completes or raises.
Merge ==
    /\ pc = "merge"
    /\ \/ /\ combined_workbook' = MergeWorkbooks(wb_landed_cost, wb_profit_calc)
          /\ pc' = "save"
          /\ UNCHANGED <<st_error, failed_at>>
       \/ /\ HasStyledCell(wb_landed_cost) \/ HasStyledCell(wb_profit_calc)
          /\ Raise("merge")
          /\ UNCHANGED combined_workbook
    /\ UNCHANGED <<keyword_name, landed_cost_file, profit_calc_file,
                   wb_landed_cost, wb_profit_calc, inputs, tmp_file, attempt,
                   calculated_landed_cost, st_success, was_fallback,
                   download_offered, written, persists, loads, checks, button>>

\* lines 187-189: save_excel of the combined workbook; it may raise
SaveCombined ==
    /\ pc = "save"
    /\ \/ /\ pc' = "success"
          /\ UNCHANGED <<st_error, failed_at>>
       \/ Raise("save")
    /\ UNCHANGED <<keyword_name, landed_cost_file, profit_calc_file,
                   wb_landed_cost, wb_profit_calc, inputs, tmp_file, attempt,
                   calculated_landed_cost, combined_workbook, st_success,
                   was_fallback, download_offered, written, persists, loads,
                   checks, button>>

\* lines 192-194
SignalSuccess ==
    /\ pc = "success"
    /\ st_success' = TRUE
    /\ pc' = "download"
    /\ UNCHANGED <<keyword_name, landed_cost_file, profit_calc_file,
                   wb_landed_cost, wb_profit_calc, inputs, tmp_file, attempt,
                   calculated_landed_cost, combined_workbook, st_error,
                   was_fallback, download_offered, written, persists, loads,
                   checks, failed_at, button>>

\* lines 197-198: open() of the saved file, inside the try; it may raise
OfferDownload ==
    /\ pc = "download"
    /\ \/ /\ download_offered' = TRUE
          /\ pc' = "done"
          /\ UNCHANGED <<st_error, failed_at>>
       \/ /\ Raise("open")
          /\ UNCHANGED download_offered
    /\ UNCHANGED <<keyword_name, landed_cost_file, profit_calc_file,
                   wb_landed_cost, wb_profit_calc, inputs, tmp_file, attempt,
                   calculated_landed_cost, combined_workbook, st_success,
                   was_fallback, written, persists, loads, checks, button>>

Next ==
    \/ EnterKeyword
    \/ UploadFiles
    \/ LoadWorkbooks
    \/ CheckSheetnames
    \/ CollectInputs
    \/ PressButton
    \/ WriteLandedCost
    \/ PersistLandedCost
    \/ ReloadLandedCost
    \/ CheckM25
    \/ RetryReload
    \/ ResolveLandedCost
    \/ WriteProfitCalc
    \/ Merge
    \/ SaveCombined
    \/ SignalSuccess
    \/ OfferDownload

Spec == Init /\ [][Next]_vars

\* main() is one sequential script: a step that can be taken is taken
FairSpec == Spec /\ WF_vars(Next)

Terminated == pc \in {"returned", "done", "failed"}

\* every run of the sequential script reaches one of its three ends
Terminates == <>Terminated

----------------------------------------------------------------------------
(* Vocabulary of the properties *)

\* the loop of lines 118-125 is over and lines 127-131 have run
Resolved ==
    \/ pc \in {"write_b", "merge", "save", "success", "download", "done"}
    \/ pc = "failed" /\ failed_at \in {"merge", "save", "open"}

\* the loop of lines 118-125 is over
LoopOver == pc = "resolve" \/ Resolved

\* lines 149-184 have run
Merged ==
    \/ pc \in {"save", "success", "download", "done"}
    \/ pc = "failed" /\ failed_at \in {"save", "open"}

AllChecksInvalid ==
    /\ Len(checks) = max_attempts
    /\ \A i \in 1..Len(checks) : checks[i].kind \in {"none", "str", "formula"}

FirstCheckNumeric == Len(checks) >= 1 /\ checks[1].kind = "num"

F39 == ActiveSheet(wb_profit_calc).cells["F39"].value

NonZeroInputs ==
    /\ inputs.shipping_total # 0 /\ inputs.unit_cost # 0
    /\ inputs.target_sales_per_month # 0 /\ inputs.selling_price # 0
    /\ inputs.fulfillment_fee # 0 /\ inputs.storage_cost # 0

----------------------------------------------------------------------------
(* C1: when all max_attempts = 3 validity checks of M25 see None or text,  *)
(* the resolved landed cost, and F39 once written, is                      *)
(* (shipping_total + unit_cost) / max(target_sales_per_month, 1) and the   *)
(* fallback warning was emitted.                                           *)
C1_FallbackValue ==
    (Resolved /\ AllChecksInvalid) =>
        LET expected == Div(inputs.shipping_total + inputs.unit_cost,
                            Max(inputs.target_sales_per_month, 1))
        IN  /\ was_fallback
            /\ calculated_landed_cost = expected
            /\ ("F39" \in written => F39 = expected)

C1_Witness ==
    /\ pc = "done" /\ AllChecksInvalid /\ was_fallback
    /\ inputs.target_sales_per_month = 2
    /\ F39.den = 2

(* C2: when the first check of M25 sees a number, no fallback is signalled *)
(* and the resolved landed cost, and F39 once written, is that number; no  *)
(* further check or load is made.                                          *)
C2_FirstReadWins ==
    (Resolved /\ FirstCheckNumeric) =>
        /\ ~was_fallback
        /\ calculated_landed_cost = checks[1]
        /\ ("F39" \in written => F39 = checks[1])
        /\ Len(checks) = 1 /\ loads = 1

C2_Witness ==
    /\ pc = "done" /\ FirstCheckNumeric /\ F39 = Num(7) /\ ~was_fallback

(* C3 as stated: with a keyword, shipping_total = 10, unit_cost = 5,       *)
(* target_sales_per_month = 0, the other inputs non-zero and M25 never     *)
(* numeric, the run ends with the fallback value 15 and the fallback       *)
(* warning.                                                                *)
C3_Original ==
    ( /\ Terminated
      /\ keyword_name # ""
      /\ inputs.shipping_total = 10 /\ inputs.unit_cost = 5
      /\ inputs.target_sales_per_month = 0
      /\ inputs.selling_price # 0 /\ inputs.fulfillment_fee # 0
      /\ inputs.storage_cost # 0
      /\ failed_at = "none"
      /\ \A i \in 1..Len(checks) : checks[i].kind # "num" )
    => (was_fallback /\ calculated_landed_cost = Num(15))

(* C3 amended: a target of 0 is rejected by the validation of line 85, so  *)
(* the run never starts, nothing is written, saved or loaded and no        *)
(* fallback is produced; with target 1, shipping 10, unit cost 5 and three *)
(* invalid checks the fallback value is 15 and the warning is emitted.     *)
C3_Amended ==
    /\ inputs.target_sales_per_month = 0 =>
          /\ pc \in {"keyword", "upload", "load", "sheets", "inputs", "returned"}
          /\ ~button /\ ~was_fallback
          /\ written = {} /\ persists = 0 /\ loads = 0 /\ checks = << >>
          /\ calculated_landed_cost = None
    /\ ( /\ Resolved /\ AllChecksInvalid
         /\ inputs.shipping_total = 10 /\ inputs.unit_cost = 5
         /\ inputs.target_sales_per_month = 1 )
       => (was_fallback /\ calculated_landed_cost = Num(15))

C3_Witness ==
    /\ pc = "returned" /\ st_error
    /\ keyword_name # ""
    /\ Len(wb_landed_cost.sheets) > 0 /\ Len(wb_profit_calc.sheets) > 0
    /\ inputs.shipping_total = 10 /\ inputs.unit_cost = 5
    /\ inputs.target_sales_per_month = 0
    /\ inputs.selling_price # 0 /\ inputs.fulfillment_fee # 0
    /\ inputs.storage_cost # 0

(* C4: nothing is written to document A or B, saved or reloaded unless the *)
(* keyword is non-empty, both documents have a sheet, all six numbers are  *)
(* non-zero and the button was pressed; until then both workbooks are the  *)
(* uploaded ones.                                                          *)
C4_NoWriteBeforeStart ==
    /\ (written # {} \/ persists > 0 \/ loads > 0 \/ tmp_file # NoDoc) =>
          /\ keyword_name # ""
          /\ Len(landed_cost_file.sheets) > 0
          /\ Len(profit_calc_file.sheets) > 0
          /\ NonZeroInputs
          /\ button
    /\ written = {} =>
          /\ wb_landed_cost \in {NoDoc, landed_cost_file}
          /\ wb_profit_calc \in {NoDoc, profit_calc_file}
    /\ (keyword_name = "" \/ ~NonZeroInputs \/ ~button) =>
          /\ pc \in {"keyword", "upload", "load", "sheets", "inputs", "button",
                     "returned"}
          /\ combined_workbook = NoDoc

C4_Witness ==
    /\ written = {"G17", "G25", "F33", "F35", "F37", "F39", "F43"}
    /\ wb_profit_calc # profit_calc_file
    /\ button /\ NonZeroInputs

(* C5: a failed save of document A or a failed computed-mode load is fatal *)
(* and not retried: the run is in its failed state, no fallback, no write  *)
(* to B, no merge, no success, no download, and no later load or check;    *)
(* a reload after the first happens only after a check that saw None or    *)
(* text.                                                                   *)
C5_IOFailureFatal ==
    /\ [](failed_at \in {"persist", "load"} =>
            /\ pc = "failed" /\ st_error
            /\ ~was_fallback /\ ~st_success /\ ~download_offered
            /\ written \subseteq {"G17", "G25"}
            /\ wb_profit_calc = profit_calc_file
            /\ combined_workbook = NoDoc)
    /\ [][(failed_at \in {"persist", "load"}) =>
            (loads' = loads /\ checks' = checks /\ pc' = pc)]_vars
    /\ [][(loads' > loads /\ loads >= 1) =>
            ( /\ Len(checks) >= 1
              /\ checks[Len(checks)].kind \in {"none", "str", "formula"}
              /\ failed_at = "none" )]_vars

C5_Witness ==
    /\ failed_at = "load" /\ pc = "failed" /\ loads = 2 /\ Len(checks) = 2

Collides(j) ==
    \E i \in 1..Len(wb_landed_cost.sheets) :
        Lower(wb_landed_cost.sheets[i].title) = Lower(wb_profit_calc.sheets[j].title)

C7_ValuesAndStyles ==
    Merged =>
        LET out == combined_workbook.sheets
            na  == Len(wb_landed_cost.sheets)
            Same(src, dst) ==
                \A a \in Addr :
                    /\ dst.cells[a].value = src.cells[a].value
                    /\ src.cells[a].style # DefaultStyle =>
                          \A f \in Facets :
                              dst.cells[a].style[f] = src.cells[a].style[f]
                    /\ src.cells[a].style = DefaultStyle =>
                          dst.cells[a].style = DefaultStyle
        IN  /\ \A i \in 1..na : Same(wb_landed_cost.sheets[i], out[i])
            /\ \A j \in 1..Len(wb_profit_calc.sheets) :
                  Same(wb_profit_calc.sheets[j], out[na + j])

C7_Witness ==
    /\ Merged
    /\ Len(combined_workbook.sheets) = 4
    /\ combined_workbook.sheets[2].cells["M25"] = Cell(Num(15), BoldStyle)
    /\ combined_workbook.sheets[3].cells["F39"].style = MoneyStyle
    /\ combined_workbook.sheets[4].cells["F33"] = Cell(Str("memo"), DefaultStyle)

(* C8: a started run ends, after at most 3 checks, either complete with    *)
(* success signalled and the file offered, or failed with a failure        *)
(* signalled and no file offered; success and failure are never both       *)
(* signalled.                                                              *)
C8_ExactlyOneOutcome ==
    /\ Len(checks) <= max_attempts
    /\ ~(st_success /\ st_error)
    /\ (button /\ Terminated) =>
          \/ pc = "done" /\ st_success /\ download_offered /\ ~st_error
          \/ pc = "failed" /\ st_error /\ ~download_offered /\ ~st_success

(* C9: when the loop is over, every computed-mode load has been followed   *)
(* by a check of its M25 (no more loads than checks, at most 3), and the   *)
(* fallback is applied only when M25 of the snapshot loaded last is None   *)
(* or text.                                                                *)
C9_EveryReloadChecked ==
    LoopOver =>
        /\ loads <= Len(checks)
        /\ loads <= max_attempts
        /\ was_fallback => ~IsValid(ActiveSheet(wb_landed_cost).cells["M25"].value)

(* C10: in a completed run, when M25 of the landed-cost sheet of the       *)
(* combined workbook is a number, F39 of the profit calculator sheet of    *)
(* the combined workbook is that number; a fallback value is in F39 only   *)
(* when that M25 is None or text.                                          *)
C10_OutputConsistent ==
    pc = "done" =>
        LET out == combined_workbook.sheets
            m25 == out[wb_landed_cost.active].cells["M25"].value
            f39 == out[Len(wb_landed_cost.sheets) + wb_profit_calc.active]
                      .cells["F39"].value
        IN  /\ m25.kind = "num" => f39 = m25
            /\ was_fallback => m25.kind # "num"

====
